---- MODULE Spec2Model ----
(***************************************************************************)
(* Model of src/app.py: the Gradio callback gemini_generate, which encodes *)
(* two uploaded images, POSTs them to the Gemini generateContent endpoint, *)
(* picks the first image-bearing part of the first candidate (fetching it  *)
(* with a GET when it is a file reference), re-encodes it to a uniquely    *)
(* named JPEG file, reads the file back and returns a 4-tuple              *)
(* (status, image path, base64, metadata JSON).                            *)
(*                                                                         *)
(* A call is split at its externally visible events: the POST, the GET,    *)
(* the file write and the file read-back.  Everything the code does        *)
(* between two such events is one atomic step of the call.                 *)
(***************************************************************************)
EXTENDS Integers, Sequences, FiniteSets, TLC

(* ---------------------------- bounds ----------------------------------- *)

\* number of gemini_generate invocations that may be in flight together
NumCalls == 2
\* longest parts list of a candidate in a generated response
MaxParts == 2

Calls == 1..NumCalls

(* ------------------- byte strings, images, base64 ---------------------- *)

\* pixel contents that can occur
Pixels == {"X", "Y"}

\* A byte string is described by the container format it parses as and the
\* picture it holds: "empty" is b"", "junk" is bytes no image codec accepts,
\* "part" is a truncated JPEG left behind by a failed write.
MkBytes(f, p) == [fmt |-> f, pix |-> p]
EmptyBytes == MkBytes("empty", "-")
JunkBytes == MkBytes("junk", "-")
PartialBytes == MkBytes("part", "-")
Jpeg(p) == MkBytes("jpeg", p)
Png(p) == MkBytes("png", p)

\* Text values handed to base64.b64decode / tested by `not img_b64`:
\* "none" is Python's None, "b64" is the base64 text of raw, "bad" is a
\* non-empty string that is not base64.
NoneText == [kind |-> "none", raw |-> EmptyBytes]
BadText == [kind |-> "bad", raw |-> EmptyBytes]

\* results of operations that may raise: err = "" means no exception
Ok(v) == [err |-> "", val |-> v]
Err(e, v) == [err |-> e, val |-> v]

\* base64.b64encode(b).decode("utf-8")   (b64encode(b"") is the empty string)
b64encode(b) == [kind |-> "b64", raw |-> b]
EmptyText == b64encode(EmptyBytes)

\* base64.b64decode(t)
b64decode(t) ==
  CASE t.kind = "b64" -> Ok(t.raw)
    [] t.kind = "none" -> Err("TypeError", EmptyBytes)
    [] OTHER -> Err("binascii.Error", EmptyBytes)

\* Image.open(b).convert("RGB"): the picture, or UnidentifiedImageError
ImageOpen(b) ==
  IF b.fmt \in {"jpeg", "png"} THEN Ok(b.pix) ELSE Err("UnidentifiedImageError", "-")

\* image.save(..., format="JPEG"): the JPEG bytes of a picture
JpegEncode(p) == Jpeg(p)

\* Python truthiness of `not x` for None and str
MutFalsy(t) == t = EmptyText
Falsy(t) == t.kind = "none" \/ t = EmptyText

\* image_to_base64(img_file), src/app.py lines 12-17
Mut_image_to_base64(img_file) ==
  LET image == ImageOpen(img_file) IN
  IF image.err # "" THEN Ok(EmptyText)
  ELSE Ok(b64encode(JpegEncode(image.val)))
image_to_base64(img_file) ==
  LET image == ImageOpen(img_file) IN
  IF image.err # "" THEN Err(image.err, NoneText)
  ELSE Ok(b64encode(JpegEncode(image.val)))

\* the f-string of line 23
MutFilename(u) == "generated.jpeg"
Filename(u) == "generated_" \o ToString(u) \o ".jpeg"

\* line 104
final_url(filename) == "/file=" \o filename

(* ------------------------ JSON response shapes ------------------------- *)

\* dict.get(key, default) on a field that may be absent
DictGet(v, default) == IF v = "absent" THEN default ELSE v

\* One element of candidates[0].content.parts.  hasInline / hasFile say
\* whether the keys "inlineData" / "fileData" are in the part; data is
\* inlineData.data (NoneText when the key is absent), imime and fmime the two
\* mimeType fields ("absent" when missing), hasUri whether fileData.fileUri
\* exists.
MkPart(hi, d, im, hf, hu, uri, fm) ==
  [hasInline |-> hi, data |-> d, imime |-> im,
   hasFile |-> hf, hasUri |-> hu, fileUri |-> uri, fmime |-> fm]
TextPart == MkPart(FALSE, NoneText, "absent", FALSE, FALSE, "", "absent")
InlinePart(d, m) == MkPart(TRUE, d, m, FALSE, FALSE, "", "absent")
FilePart(hu, uri, m) == MkPart(FALSE, NoneText, "absent", TRUE, hu, uri, m)

\* the parts a generated response is built from
PartSet ==
  { TextPart,
    InlinePart(b64encode(Png("X")), "image/png"),
    InlinePart(b64encode(Jpeg("Y")), "absent"),
    InlinePart(NoneText, "image/png"),
    InlinePart(BadText, "image/jpeg"),
    FilePart(TRUE, "https://files/1", "absent"),
    FilePart(TRUE, "https://files/2", "image/png"),
    FilePart(FALSE, "", "image/png"),
    MkPart(TRUE, b64encode(Png("X")), "image/png", TRUE, TRUE, "https://files/2", "absent") }

PartLists == UNION { [1..n -> PartSet] : n \in 0..MaxParts }

\* a candidate; hasContent is whether it has a "content" key
MkCandidate(hc, ps) == [hasContent |-> hc, parts |-> ps]

\* candidates after the first one
LaterCandidates ==
  { MkCandidate(TRUE, <<InlinePart(b64encode(Jpeg("Y")), "image/jpeg")>>) }

\* a parsed JSON body: error is the "error" member of an error body ("" when
\* there is none), hasCandidates whether "candidates" is a key
MkJson(e, hc, cs, mv, rid) ==
  [error |-> e, hasCandidates |-> hc, candidates |-> cs,
   modelVersion |-> mv, responseId |-> rid]
EmptyObject == MkJson("", FALSE, <<>>, "absent", "absent")

\* text of an HTTP body or of a returned metadata string.  JSON text is
\* identified with the value it denotes (whitespace is not modelled).
JsonText(v) == [isJson |-> TRUE, val |-> v]
NonJsonText == [isJson |-> FALSE, val |-> EmptyObject]

\* json.dumps(v, indent=2)
json_dumps(v) == JsonText(v)
\* resp.json()
resp_json(body) == IF body.isJson THEN Ok(body.val) ELSE Err("JSONDecodeError", EmptyObject)

CandidateLists ==
  { <<>> } \cup
  { <<MkCandidate(FALSE, <<>>)>> } \cup
  { <<MkCandidate(TRUE, ps)>> : ps \in PartLists } \cup
  { <<MkCandidate(TRUE, ps), c2>> : ps \in PartLists, c2 \in LaterCandidates }

TopLevelIds == { <<"absent", "absent">>, <<"gemini-2.5-flash-image-preview", "r1">> }

SuccessJson ==
  { MkJson("", TRUE, cs, t[1], t[2]) : cs \in CandidateLists, t \in TopLevelIds }
  \cup { EmptyObject }

ErrorJson == { MkJson("PERMISSION_DENIED", FALSE, <<>>, "absent", "absent") }

Bodies == { JsonText(v) : v \in SuccessJson \cup ErrorJson } \cup { NonJsonText }

\* HTTP status codes the endpoints answer with
StatusCodes == {200, 403, 500}

\* what requests.post / requests.get can give back: an exception
\* (exc # "") or a response object
MkResponse(x, s, b, c) == [exc |-> x, status_code |-> s, body |-> b, content |-> c]
NoResponse == MkResponse("", 0, NonJsonText, EmptyBytes)

PostOutcomes ==
  { MkResponse("", s, b, EmptyBytes) : s \in StatusCodes, b \in Bodies }
  \cup { MkResponse("ConnectionError", 0, NonJsonText, EmptyBytes) }

GetContents == { EmptyBytes, JunkBytes, Png("Y"), Jpeg("X") }

GetOutcomes ==
  { MkResponse("", s, NonJsonText, b) : s \in {200, 404}, b \in GetContents }
  \cup { MkResponse("ConnectionError", 0, NonJsonText, EmptyBytes) }

\* the outcomes used when several calls run together
ConcPostOutcomes ==
  { MkResponse("", 200, JsonText(MkJson("", TRUE, <<MkCandidate(TRUE, <<p>>)>>, "absent", "absent")), EmptyBytes) :
      p \in { InlinePart(b64encode(Png("X")), "image/png"),
              InlinePart(b64encode(Jpeg("Y")), "image/jpeg"),
              FilePart(TRUE, "https://files/1", "absent") } }

ConcGetOutcomes == { MkResponse("", 200, NonJsonText, b) : b \in { Png("Y"), Jpeg("X") } }

(* ----------------------------- results --------------------------------- *)

\* the path returned when no image was produced (Python None)
NonePath == "None"

\* the status texts of lines 31, 71, 96, 115 and 118
MkStatus(k, c, d) == [kind |-> k, code |-> c, detail |-> d]
ConfigStatus == MkStatus("Error: API key required", 0, "")
ApiStatus(code) == MkStatus("API Error", code, "")
EmptyStatus == MkStatus("No image found in response", 0, "")
SuccessStatus == MkStatus("Success", 0, "")
ExceptionStatus(e) == MkStatus("Exception", 0, e)

\* the 4-tuple gemini_generate returns
MkResult(st, p, b, m) == [status |-> st, path |-> p, b64 |-> b, meta |-> m]
NoResult == MkResult(MkStatus("", 0, ""), NonePath, EmptyText, NonJsonText)

\* line 31
ConfigErrorResult == MkResult(ConfigStatus, NonePath, EmptyText, JsonText(EmptyObject))
\* line 71
ApiErrorResult(code, json) == MkResult(ApiStatus(code), NonePath, EmptyText, json_dumps(json))
\* line 96
NoImageResult(data) == MkResult(EmptyStatus, NonePath, EmptyText, json_dumps(data))
\* line 118
ExceptionResult(e) == MkResult(ExceptionStatus(e), NonePath, EmptyText, JsonText(EmptyObject))

\* lines 107-113
Metadata(data, mime_type, source_used, url) ==
  [modelVersion |-> DictGet(data.modelVersion, "unknown"),
   responseId |-> DictGet(data.responseId, "unknown"),
   mimeType |-> mime_type,
   source |-> source_used,
   finalImage |-> url]
\* line 115
MutSuccessResult(filename, final_b64, metadata) ==
  MkResult(SuccessStatus, final_url(filename), final_b64, json_dumps(metadata))
SuccessResult(filename, final_b64, metadata) ==
  MkResult(SuccessStatus, filename, final_b64, json_dumps(metadata))

(* --------------------- the body of gemini_generate --------------------- *)

\* line 30
MutKeyMissing(api_key) == FALSE
KeyMissing(api_key) == api_key = ""

\* `except Exception` of line 117: which exceptions raised in the try block
\* are caught
MutCaught(e) == e \in {"ConnectionError", "OSError"}
Caught(e) == TRUE

\* local variables of one call
MkLocals(b, m, s, u, f) ==
  [img_b64 |-> b, mime_type |-> m, source_used |-> s, file_uri |-> u, filename |-> f]
NoLocals == MkLocals(NoneText, "None", "None", "", "")

\* where a step leaves the call: returned r, raised e, or going on at p
Done(r, l) == [pc |-> "done", result |-> r, locals |-> l]
Goto(p, l) == [pc |-> p, result |-> NoResult, locals |-> l]
Raised(e, l) ==
  IF Caught(e) THEN Done(ExceptionResult(e), l) ELSE Goto("raised", l)

\* line 76: the parts of the first candidate
PartsOf(data) ==
  IF ~data.hasCandidates THEN Ok(<<>>)
  ELSE IF data.candidates = <<>> THEN Err("IndexError", <<>>)
  ELSE IF ~data.candidates[1].hasContent THEN Ok(<<>>)
  ELSE Ok(data.candidates[1].parts)

IsImagePart(part) == part.hasInline \/ part.hasFile

\* lines 81-93: index of the part at which the loop breaks, 0 when it runs
\* to the end
RECURSIVE ScanFrom(_, _)
MutScanFrom(parts, i) ==
  LET S == { j \in i..Len(parts) : IsImagePart(parts[j]) } IN
  IF S = {} THEN 0 ELSE CHOOSE j \in S : \A k \in S : k <= j
ScanFrom(parts, i) ==
  IF i > Len(parts) THEN 0
  ELSE IF IsImagePart(parts[i]) THEN i
  ELSE ScanFrom(parts, i + 1)
FirstImagePart(parts) == ScanFrom(parts, 1)

\* lines 12-17 applied to both uploads (lines 35-36)
EncodeInputs(influencer_img, product_img) ==
  LET a == image_to_base64(influencer_img)
      b == image_to_base64(product_img)
  IN IF a.err # "" THEN Err(a.err, <<>>)
     ELSE IF b.err # "" THEN Err(b.err, <<>>)
     ELSE Ok(<<a.val, b.val>>)

\* lines 30-36: up to the point where the request is about to be sent
AfterStart(api_key, influencer_img, product_img) ==
  IF KeyMissing(api_key) THEN Done(ConfigErrorResult, NoLocals)
  ELSE LET enc == EncodeInputs(influencer_img, product_img) IN
       IF enc.err # "" THEN Raised(enc.err, NoLocals)
       ELSE Goto("post", NoLocals)

\* lines 70-89: from the answer to the POST up to the GET, or to line 95
AfterPost(r, l) ==
  IF r.exc # "" THEN Raised(r.exc, l)
  ELSE IF r.status_code # 200 THEN
    LET j == resp_json(r.body) IN
    IF j.err # "" THEN Raised(j.err, l) ELSE Done(ApiErrorResult(r.status_code, j.val), l)
  ELSE
    LET j == resp_json(r.body) IN
    IF j.err # "" THEN Raised(j.err, l)
    ELSE LET ps == PartsOf(j.val) IN
      IF ps.err # "" THEN Raised(ps.err, l)
      ELSE LET i == FirstImagePart(ps.val) IN
        IF i = 0 THEN Goto("check", l)
        ELSE LET part == ps.val[i] IN
          IF part.hasInline THEN
            Goto("check", MkLocals(part.data, DictGet(part.imime, "None"), "inlineData", "", ""))
          ELSE IF ~part.hasUri THEN Raised("KeyError", l)
          ELSE Goto("get", MkLocals(NoneText, DictGet(part.fmime, "image/jpeg"), "None", part.fileUri, ""))

\* lines 91-93: from the answer to the GET to line 95
MutAfterGet(r, l) ==
  IF r.exc # "" THEN Raised(r.exc, l)
  ELSE Goto("check", MkLocals(b64encode(r.content), l.mime_type, l.source_used, l.file_uri, ""))
AfterGet(r, l) ==
  IF r.exc # "" THEN Raised(r.exc, l)
  ELSE Goto("check", MkLocals(b64encode(r.content), l.mime_type, "fileData", l.file_uri, ""))

\* lines 21-22 of save_base64_to_jpeg
DecodeImage(b64_data) ==
  LET img_bytes == b64decode(b64_data) IN
  IF img_bytes.err # "" THEN Err(img_bytes.err, "-") ELSE ImageOpen(img_bytes.val)

(* ------------------------------ state ---------------------------------- *)

VARIABLES
  pc,       \* pc[c]: "idle", "post", "get", "check", "read", "done" or "raised"
  args,     \* args[c]: the arguments of the call
  resp,     \* resp[c]: what requests.post gave back (line 66)
  r,        \* r[c]: what requests.get gave back (line 90)
  locals,   \* locals[c]: img_b64, mime_type, source_used, file_uri, filename
  result,   \* result[c]: the returned 4-tuple
  netlog,   \* netlog[c]: the outbound requests of the call, in order
  fs,       \* the working directory: a set of [name, content]
  writes,   \* every file write so far, in order: [by, name, content, existed]
  issued    \* the values uuid.uuid4() has produced so far

vars == <<pc, args, resp, r, locals, result, netlog, fs, writes, issued>>

\* line 62
GenerateUrl == "https://generativelanguage.googleapis.com/v1beta/models/gemini-2.5-flash-image-preview:generateContent"

\* values uuid.uuid4() can produce; there are always more than are drawn.
\* uuid4 is taken never to return a value it returned before (variable
\* issued): the chance of a repeated 122-bit random value is not modelled.
UUIDs == 1..(NumCalls + 1)

\* arguments the form can submit
ApiKeys == {"", "AIza"}
Prompts == {"place the product"}
Uploads == { Png("X"), JunkBytes }
MkArgs(k, p, a, b) == [api_key |-> k, prompt |-> p, influencer_img |-> a, product_img |-> b]
NoArgs == MkArgs("", "", EmptyBytes, EmptyBytes)

\* arguments used when several calls run together
ConcApiKeys == {"AIza"}
ConcUploads == { Png("X") }

MkRequest(m, u, k) == [method |-> m, url |-> u, key |-> k]

FileNames(dir) == { f.name : f \in dir }
\* img.save(filename) / open(filename, "wb"): create or overwrite
WriteFile(dir, name, content) ==
  { f \in dir : f.name # name } \cup { [name |-> name, content |-> content] }
\* open(filename, "rb").read()
ReadFile(dir, name) ==
  IF name \in FileNames(dir)
  THEN Ok((CHOOSE f \in dir : f.name = name).content)
  ELSE Err("FileNotFoundError", EmptyBytes)

\* a file of an earlier run that may already be in the working directory
OldFile == [name |-> Filename(1), content |-> Jpeg("Y")]

Init ==
  /\ pc = [c \in Calls |-> "idle"]
  /\ args = [c \in Calls |-> NoArgs]
  /\ resp = [c \in Calls |-> NoResponse]
  /\ r = [c \in Calls |-> NoResponse]
  /\ locals = [c \in Calls |-> NoLocals]
  /\ result = [c \in Calls |-> NoResult]
  /\ netlog = [c \in Calls |-> <<>>]
  /\ fs \in { {}, {OldFile} }
  /\ issued = IF fs = {} THEN {} ELSE {1}
  /\ writes = <<>>

\* a step's outcome o becomes the call's state
Apply(c, o) ==
  /\ pc' = [pc EXCEPT ![c] = o.pc]
  /\ result' = [result EXCEPT ![c] = o.result]
  /\ locals' = [locals EXCEPT ![c] = o.locals]

\* lines 29-63: the callback is invoked; key check, encoding, payload
Start(c, K, U) ==
  /\ pc[c] = "idle"
  /\ \E k \in K, p \in Prompts, a \in U, b \in U :
       /\ args' = [args EXCEPT ![c] = MkArgs(k, p, a, b)]
       /\ Apply(c, AfterStart(k, a, b))
  /\ UNCHANGED <<resp, r, netlog, fs, writes, issued>>

\* lines 66-89: requests.post and the handling of its answer
Post(c, O) ==
  /\ pc[c] = "post"
  /\ \E o \in O :
       /\ resp' = [resp EXCEPT ![c] = o]
       /\ Apply(c, AfterPost(o, locals[c]))
  /\ netlog' = [netlog EXCEPT ![c] = Append(@, MkRequest("POST", GenerateUrl, args[c].api_key))]
  /\ UNCHANGED <<args, r, fs, writes, issued>>

\* lines 90-93: requests.get of the file reference
Get(c, O) ==
  /\ pc[c] = "get"
  /\ \E o \in O :
       /\ r' = [r EXCEPT ![c] = o]
       /\ Apply(c, AfterGet(o, locals[c]))
  /\ netlog' = [netlog EXCEPT ![c] = Append(@, MkRequest("GET", locals[c].file_uri, ""))]
  /\ UNCHANGED <<args, resp, fs, writes, issued>>

\* how img.save can end: the file is written, nothing is written, or a
\* truncated file is left behind
SaveOutcomes == {"ok", "fail", "partial"}

\* lines 95-99: the emptiness test and save_base64_to_jpeg
Save(c) ==
  /\ pc[c] = "check"
  /\ LET l == locals[c]
         img == DecodeImage(l.img_b64)
     IN
     IF Falsy(l.img_b64) THEN
       /\ Apply(c, Done(NoImageResult(resp[c].body.val), l))
       /\ UNCHANGED <<fs, writes, issued>>
     ELSE IF img.err # "" THEN
       /\ Apply(c, Raised(img.err, l))
       /\ UNCHANGED <<fs, writes, issued>>
     ELSE
       \E u \in UUIDs \ issued, io \in SaveOutcomes :
         LET filename == Filename(u)
             l2 == [l EXCEPT !.filename = filename]
             w == [by |-> c, name |-> filename, content |-> JpegEncode(img.val),
                   existed |-> filename \in FileNames(fs)]
         IN
         /\ issued' = issued \cup {u}
         /\ CASE io = "ok" ->
                  /\ fs' = WriteFile(fs, filename, w.content)
                  /\ writes' = Append(writes, w)
                  /\ Apply(c, Goto("read", l2))
              [] io = "partial" ->
                  /\ fs' = WriteFile(fs, filename, PartialBytes)
                  /\ writes' = Append(writes, [w EXCEPT !.content = PartialBytes])
                  /\ Apply(c, Raised("OSError", l2))
              [] OTHER ->
                  /\ UNCHANGED <<fs, writes>>
                  /\ Apply(c, Raised("OSError", l2))
  /\ UNCHANGED <<args, resp, r, netlog>>

\* lines 100-115: the file is read back and the success tuple is built
ReadBack(c) ==
  /\ pc[c] = "read"
  /\ \E io \in {"ok", "fail"} :
       LET l == locals[c]
           f == ReadFile(fs, l.filename)
       IN
       IF io = "fail" THEN Apply(c, Raised("OSError", l))
       ELSE IF f.err # "" THEN Apply(c, Raised(f.err, l))
       ELSE Apply(c, Done(SuccessResult(l.filename, b64encode(f.val),
                            Metadata(resp[c].body.val, l.mime_type, l.source_used,
                                     final_url(l.filename))), l))
  /\ UNCHANGED <<args, resp, r, netlog, fs, writes, issued>>

\* one call, every input and every answer of the two endpoints
Solo == {1}

Next ==
  \E c \in Solo :
    \/ Start(c, ApiKeys, Uploads)
    \/ Post(c, PostOutcomes)
    \/ Get(c, GetOutcomes)
    \/ Save(c)
    \/ ReadBack(c)

Spec == Init /\ [][Next]_vars

\* several calls in flight together, every interleaving of their steps
ConcNext ==
  \E c \in Calls :
    \/ Start(c, ConcApiKeys, ConcUploads)
    \/ Post(c, ConcPostOutcomes)
    \/ Get(c, ConcGetOutcomes)
    \/ Save(c)
    \/ ReadBack(c)

ConcSpec == Init /\ [][ConcNext]_vars

(* ------------------------------ claims --------------------------------- *)

Returned(c) == pc[c] = "done"
Ended(c) == pc[c] \in {"done", "raised"}
Requests(c, m) == { i \in 1..Len(netlog[c]) : netlog[c][i].method = m }
WritesBy(c) == { i \in 1..Len(writes) : writes[i].by = c }

\* the POST of call c was answered with status 200 and a JSON body
Answered200(c) ==
  /\ pc[c] \notin {"idle", "post"}
  /\ resp[c].exc = ""
  /\ resp[c].status_code = 200
  /\ resp[c].body.isJson
DataOf(c) == resp[c].body.val

\* the parts list of the first candidate of a response whose candidate list
\* is missing or non-empty
HasFirstCandidate(d) == ~d.hasCandidates \/ d.candidates # <<>>
FirstParts(d) ==
  IF d.hasCandidates /\ d.candidates # <<>> /\ d.candidates[1].hasContent
  THEN d.candidates[1].parts ELSE <<>>
ImageIndexes(ps) == { i \in 1..Len(ps) : ps[i].hasInline \/ ps[i].hasFile }
\* position of the first image-bearing part in list order, 0 if there is none
Leading(ps) ==
  IF ImageIndexes(ps) = {} THEN 0
  ELSE CHOOSE i \in ImageIndexes(ps) : \A j \in ImageIndexes(ps) : i <= j

\* source / mimeType / finalImage of the metadata a successful call returns
MetaOf(c) ==
  IF Returned(c) /\ result[c].status.kind = "Success" THEN result[c].meta.val
  ELSE [modelVersion |-> "", responseId |-> "", mimeType |-> "", source |-> "", finalImage |-> ""]

\* C1: a call with an empty API key returns the configuration-error status
\* with no image path and empty base64, whatever the prompt and the images
\* are, and sends no request, neither the POST nor a GET.
C1_EmptyKeyShortCircuits ==
  \A c \in Calls :
    (pc[c] # "idle" /\ args[c].api_key = "") =>
      /\ Returned(c)
      /\ result[c].status.kind = "Error: API key required"
      /\ result[c].path = NonePath
      /\ result[c].b64 = EmptyText
      /\ netlog[c] = <<>>

C1_Witness ==
  \E c \in Calls :
    /\ Returned(c)
    /\ args[c].api_key = ""
    /\ args[c].influencer_img = JunkBytes
    /\ result[c].status.kind = "Error: API key required"
    /\ netlog[c] = <<>>

\* C2: when the POST completes with a status other than 200, for any
\* response body, the returned status carries that status code, the metadata
\* output is the response body, the image path is absent, the base64 output
\* is empty and the POST was sent once.
C2_Non200ReportsStatusAndBody ==
  \A c \in Calls :
    (Requests(c, "POST") # {} /\ resp[c].exc = "" /\ resp[c].status_code # 200) =>
      /\ Returned(c)
      /\ result[c].status.kind = "API Error"
      /\ result[c].status.code = resp[c].status_code
      /\ result[c].meta = resp[c].body
      /\ result[c].path = NonePath
      /\ result[c].b64 = EmptyText
      /\ Cardinality(Requests(c, "POST")) = 1

\* C3: a 200 response that is well formed and has no image-bearing part in
\* its first candidate (an empty parts list included) ends in the
\* empty-result status with no image path, empty base64 and the raw
\* response as metadata; never in success or in a generic failure.
C3_NoImagePartGivesEmptyResult ==
  \A c \in Calls :
    (Answered200(c) /\ HasFirstCandidate(DataOf(c))
       /\ ImageIndexes(FirstParts(DataOf(c))) = {}) =>
      /\ pc[c] \in {"check", "done"}
      /\ Returned(c) =>
           /\ result[c].status.kind = "No image found in response"
           /\ result[c].path = NonePath
           /\ result[c].b64 = EmptyText
           /\ result[c].meta = resp[c].body

C3_Witness ==
  \E c \in Calls :
    /\ Returned(c) /\ Answered200(c)
    /\ DataOf(c).hasCandidates /\ Len(DataOf(c).candidates) = 1
    /\ DataOf(c).candidates[1].hasContent
    /\ DataOf(c).candidates[1].parts = <<TextPart>>
    /\ result[c].status.kind = "No image found in response"
    /\ result[c].meta = resp[c].body

\* the only image-bearing part of the whole response is a file reference
OnlyImagePartIsFileRef(d) ==
  /\ d.hasCandidates /\ d.candidates # <<>>
  /\ Cardinality(ImageIndexes(FirstParts(d))) = 1
  /\ \A k \in 2..Len(d.candidates) : ImageIndexes(d.candidates[k].parts) = {}
  /\ LET p == FirstParts(d)[Leading(FirstParts(d))] IN p.hasFile /\ ~p.hasInline
TheFileRef(d) == FirstParts(d)[Leading(FirstParts(d))]

\* C4 as stated: for a 200 response whose only image-bearing part is a file
\* reference the call sends exactly one GET, to the referenced URI and after
\* the POST, and the metadata of the result has source "fileRef".
C4_FileRefSourceIsFileRef ==
  \A c \in Calls :
    (Ended(c) /\ Answered200(c) /\ OnlyImagePartIsFileRef(DataOf(c))) =>
      /\ Len(netlog[c]) = 2
      /\ netlog[c][1].method = "POST"
      /\ netlog[c][2] = MkRequest("GET", TheFileRef(DataOf(c)).fileUri, "")
      /\ MetaOf(c).source = "fileRef"

\* C4 amended: for a 200 response whose only image-bearing part is a file
\* reference that has a fileUri, the call sends exactly one GET, to that
\* URI and after the POST; when the call succeeds the metadata has source
\* "fileData".
C4_FileRefOneGetSourceFileData ==
  \A c \in Calls :
    (Ended(c) /\ Answered200(c) /\ OnlyImagePartIsFileRef(DataOf(c))
       /\ TheFileRef(DataOf(c)).hasUri) =>
      /\ Len(netlog[c]) = 2
      /\ netlog[c][1] = MkRequest("POST", GenerateUrl, args[c].api_key)
      /\ netlog[c][2] = MkRequest("GET", TheFileRef(DataOf(c)).fileUri, "")
      /\ result[c].status.kind = "Success" => MetaOf(c).source = "fileData"

C4_Witness ==
  \E c \in Calls :
    /\ Returned(c) /\ Answered200(c) /\ OnlyImagePartIsFileRef(DataOf(c))
    /\ result[c].status.kind = "Success"
    /\ MetaOf(c).source = "fileData"
    /\ Len(netlog[c]) = 2 /\ netlog[c][2].method = "GET"

\* the response cut after the first image-bearing part of its first candidate
Truncated(d) ==
  [d EXCEPT !.candidates =
     <<MkCandidate(TRUE, SubSeq(FirstParts(d), 1, Leading(FirstParts(d))))>>]

\* the call returned after a 200 response whose first candidate has an
\* image-bearing part
HasLeadingPart(c) ==
  /\ Returned(c) /\ Answered200(c) /\ HasFirstCandidate(DataOf(c))
  /\ Leading(FirstParts(DataOf(c))) > 0
LeadingPart(c) == FirstParts(DataOf(c))[Leading(FirstParts(DataOf(c)))]

\* What call c returned and did is what the first image-bearing part p of
\* the first candidate dictates; diag is the metadata of an empty result.
FirstPartDecides(c, diag) ==
  LET p == LeadingPart(c)
      kind == result[c].status.kind
      w == { writes[i] : i \in WritesBy(c) }
  IN
  /\ Cardinality(WritesBy(c)) <= 1
  /\ Len(netlog[c]) = IF ~p.hasInline /\ p.hasUri THEN 2 ELSE 1
  /\ kind \in {"Success", "No image found in response", "Exception"}
  /\ kind = "No image found in response" => result[c].meta = diag
  /\ kind = "Exception" => result[c].meta = JsonText(EmptyObject)
  /\ kind = "Success" =>
       /\ MetaOf(c).modelVersion = DictGet(DataOf(c).modelVersion, "unknown")
       /\ MetaOf(c).responseId = DictGet(DataOf(c).responseId, "unknown")
       /\ MetaOf(c).finalImage = "/file=" \o result[c].path
       /\ \E f \in w : f.name = result[c].path /\ result[c].b64 = b64encode(f.content)
  /\ p.hasInline =>
       /\ Requests(c, "GET") = {}
       /\ (p.data.kind = "none" \/ p.data = EmptyText) <=> kind = "No image found in response"
       /\ (p.data.kind = "b64" /\ p.data.raw.fmt \in {"jpeg", "png"}) <=> kind \in {"Success", "Exception"} /\ result[c].status.detail \in {"", "OSError"}
       /\ kind = "Success" =>
            /\ MetaOf(c).source = "inlineData"
            /\ MetaOf(c).mimeType = DictGet(p.imime, "None")
            /\ result[c].b64 = b64encode(Jpeg(p.data.raw.pix))
            /\ \A f \in w : f.content = Jpeg(p.data.raw.pix)
  /\ ~p.hasInline =>
       /\ kind = "Success" =>
            /\ MetaOf(c).source = "fileData"
            /\ MetaOf(c).mimeType = DictGet(p.fmime, "image/jpeg")
            /\ result[c].b64 = b64encode(Jpeg(r[c].content.pix))
       /\ p.hasUri => netlog[c][2].url = p.fileUri

\* C5 as stated: after a 200 response only the first image-bearing part of
\* the first candidate determines the outcome (an inline part gives its own
\* data and MIME type, the inline source mark and no GET); later parts and
\* later candidates change nothing of the result, so the result is the one
\* of the response cut after that part.
C5_LaterPartsNeverShow ==
  \A c \in Calls :
    HasLeadingPart(c) => FirstPartDecides(c, json_dumps(Truncated(DataOf(c))))

\* C5 amended: as stated, except that an empty result (the first
\* image-bearing part has no usable data) carries the whole raw response,
\* later parts and candidates included, as its metadata.
C5_FirstImagePartDecides ==
  \A c \in Calls :
    HasLeadingPart(c) => FirstPartDecides(c, json_dumps(DataOf(c)))

C5_Witness ==
  \E c \in Calls :
    /\ HasLeadingPart(c)
    /\ Len(DataOf(c).candidates) = 2
    /\ Len(FirstParts(DataOf(c))) = 2
    /\ FirstParts(DataOf(c))[1] = InlinePart(b64encode(Png("X")), "image/png")
    /\ FirstParts(DataOf(c))[2].hasFile
    /\ result[c].status.kind = "Success"
    /\ MetaOf(c).source = "inlineData"
    /\ result[c].b64 = b64encode(Jpeg("X"))
    /\ Len(netlog[c]) = 1

\* C6: no exception leaves gemini_generate, whichever step raised it, and
\* every returned tuple whose status is not success has no image path and
\* an empty base64 output.
C6_EveryErrorBecomesAResult ==
  \A c \in Calls :
    /\ pc[c] # "raised"
    /\ (Returned(c) /\ result[c].status.kind # "Success") =>
         /\ result[c].path = NonePath
         /\ result[c].b64 = EmptyText

C6_Witness ==
  \E c \in Calls :
    /\ Returned(c)
    /\ resp[c].status_code = 500 /\ ~resp[c].body.isJson
    /\ result[c].status = ExceptionStatus("JSONDecodeError")
    /\ result[c].path = NonePath

\* C7, for the file-reference GET (the POST is the subject of C2): a
\* non-success HTTP status of the GET makes the call return the API-error
\* status with a diagnostic body; a failed GET never ends in success nor in
\* a generic failure with empty metadata.
C7_FailedFetchIsAnApiError ==
  \A c \in Calls :
    (Returned(c) /\ Requests(c, "GET") # {} /\ r[c].exc = "" /\ r[c].status_code # 200) =>
      /\ result[c].status.kind = "API Error"
      /\ result[c].status.kind # "Success"
      /\ result[c].meta # JsonText(EmptyObject)

\* C8: the requests of one call are at most a POST followed by at most one
\* GET; the POST is sent only after both uploads were encoded, the GET only
\* after the POST returned 200 and the first image-bearing part of the
\* first candidate is a file reference, and to its URI.
C8_AtMostPostThenGet ==
  \A c \in Calls :
    /\ Len(netlog[c]) <= 2
    /\ Len(netlog[c]) >= 1 =>
         /\ netlog[c][1] = MkRequest("POST", GenerateUrl, args[c].api_key)
         /\ args[c].api_key # ""
         /\ args[c].influencer_img.fmt \in {"jpeg", "png"}
         /\ args[c].product_img.fmt \in {"jpeg", "png"}
    /\ Len(netlog[c]) = 2 =>
         /\ netlog[c][2].method = "GET"
         /\ Answered200(c)
         /\ Leading(FirstParts(DataOf(c))) > 0
         /\ LeadingPart(c).hasFile /\ ~LeadingPart(c).hasInline
         /\ netlog[c][2].url = LeadingPart(c).fileUri

C8_Witness ==
  \E c \in Calls :
    /\ Returned(c)
    /\ Len(netlog[c]) = 2
    /\ netlog[c][1].method = "POST" /\ netlog[c][2].method = "GET"
    /\ Leading(FirstParts(DataOf(c))) = 2

\* C9: calls running together never write the same file name, and what a
\* successful call returns is the path and the content of the file this
\* call wrote.
C9_CallsKeepTheirOwnFile ==
  /\ \A i, j \in 1..Len(writes) :
       writes[i].by # writes[j].by => writes[i].name # writes[j].name
  /\ \A c \in Calls :
       (Returned(c) /\ result[c].status.kind = "Success") =>
         \E i \in WritesBy(c) :
           /\ writes[i].name = result[c].path
           /\ result[c].b64 = b64encode(writes[i].content)

C9_Witness ==
  \E c, d \in Calls :
    /\ c # d
    /\ Returned(c) /\ result[c].status.kind = "Success"
    /\ Returned(d) /\ result[d].status.kind = "Success"
    /\ result[c].path # result[d].path
    /\ result[c].b64 # result[d].b64
    /\ \E i \in WritesBy(c), j \in WritesBy(d) : i < j /\ pc[c] = "done"

\* C10: a call writes at most one file, and only after a 200 response gave
\* a non-empty image payload; a call that returns the configuration-error,
\* API-error or empty-result status wrote nothing, and a successful call
\* wrote exactly one file, a new one, named by the returned path and by
\* finalImage.
C10_OneFilePerSuccess ==
  /\ writes = <<>> => fs \subseteq {OldFile}
  /\ \A c \in Calls :
       /\ Cardinality(WritesBy(c)) <= 1
       /\ WritesBy(c) # {} =>
            /\ Answered200(c)
            /\ locals[c].img_b64 \notin {NoneText, EmptyText}
       /\ (Returned(c) /\ result[c].status.kind \in
             {"Error: API key required", "API Error", "No image found in response"}) =>
            WritesBy(c) = {}
       /\ (Returned(c) /\ result[c].status.kind = "Success") =>
            /\ Cardinality(WritesBy(c)) = 1
            /\ \A i \in WritesBy(c) :
                 /\ ~writes[i].existed
                 /\ writes[i].name = result[c].path
                 /\ MetaOf(c).finalImage = "/file=" \o writes[i].name

C10_Witness ==
  \E c \in Calls :
    /\ Returned(c) /\ result[c].status.kind = "Success"
    /\ fs = {OldFile, [name |-> result[c].path, content |-> Jpeg("X")]}
    /\ Cardinality(WritesBy(c)) = 1

====
